---- MODULE Spec2Model ----
(***************************************************************************)
(* Model-year filter calculus of vscode-obdb:                              *)
(*   isYearAllowedByFilter / calculateDebugFilter (debugFilterCalculator)  *)
(*   calculateOptimizedFilter (filterOptimizer)                            *)
(* Optional values (undefined / null) are sequences of length 0 or 1.      *)
(* Numeric strings are sequences of decimal digits.                        *)
(***************************************************************************)
EXTENDS Integers, Sequences, FiniteSets, TLC

VARIABLES
  supportedYears,    \* string[]: confirmed supported model years
  unsupportedYears,  \* string[]: confirmed unsupported model years
  generationSet,     \* [firstYear, lastYear], each optional
  commandFilter,     \* optional YearFilter of the command
  year,              \* year argument of isYearAllowedByFilter
  currentYear,       \* new Date().getFullYear()
  pc,                \* "call" before the function ran, "done" after
  result,            \* value returned by the function that ran
  heap,              \* the arrays of one call, by reference
  yearsRef,          \* reference of the array held by result.years
  command,           \* the command object in the document: dbg, dbgfilter
  handlerArg,        \* the filter a handler is given or has calculated
  edited,            \* the command object after a handler's edit
  lenses,            \* the debug-filter changes the CodeLens provider offers
  file,              \* the YAML file on disk: its modification time and content
  yamlCache,         \* CommandSupportCache.yamlCache entry of that file
  calls              \* the getYamlFile calls in flight

heapVars == <<heap, yearsRef>>
handlerVars == <<command, handlerArg, edited, lenses>>
cacheVars == <<file, yamlCache, calls>>
vars == <<supportedYears, unsupportedYears, generationSet, commandFilter,
          year, currentYear, pc, result, heapVars, handlerVars, cacheVars>>

----------------------------------------------------------------------------
\* Bounds of the explored inputs

NumYears == 4
NumEvidenceYears == 5
MaxYearsLen == 3
NumHeapYears == 3
MaxHeapListLen == 2
NumCalls == 2
MaxFileVersion == 3
ClockYear == 2026

\* Program constants
ProtocolFloor == 1996
DefaultFirstYear == 2000
DefaultLastYearOffset == 5

FirstModelYear == ProtocolFloor - 1
Years == FirstModelYear .. (FirstModelYear + NumYears - 1)
EvidenceYears == FirstModelYear .. (FirstModelYear + NumEvidenceYears - 1)

----------------------------------------------------------------------------
\* Optional values

None == <<>>
Some(x) == <<x>>
IsDef(o) == o # None
Val(o) == o[1]

\* JavaScript falsiness of an optional number: undefined or 0
Falsy(o) == o = None \/ Val(o) = 0

\* The parts of the extension that take no part in a run
HeapIdle == heap = <<>> /\ yearsRef = None
HandlersIdle == command = None /\ handlerArg = None /\ edited = None /\ lenses = None
CacheIdle == file = 0 /\ yamlCache = None /\ calls = <<>>

\* IEEE infinities next to the integers
NegInfinity == [inf |-> -1, v |-> 0]
PosInfinity == [inf |-> 1, v |-> 0]
Fin(n) == [inf |-> 0, v |-> n]
Less(a, b) == IF a.inf # b.inf THEN a.inf < b.inf ELSE a.inf = 0 /\ a.v < b.v
MathMax(a, b) == IF Less(a, b) THEN b ELSE a
MathMin(a, b) == IF Less(b, a) THEN b ELSE a

\* Sequences as arrays; Array.prototype.filter is SelectSeq
Includes(s, x) == \E i \in 1..Len(s) : s[i] = x
Elems(s) == {s[i] : i \in 1..Len(s)}
MinOf(S) == CHOOSE m \in S : \A x \in S : m <= x
MaxOf(S) == CHOOSE m \in S : \A x \in S : m >= x

RECURSIVE RangeSeq(_, _)
RangeSeq(a, b) == IF a > b THEN <<>> ELSE <<a>> \o RangeSeq(a + 1, b)

\* parseInt(y, 10) on a string of decimal digits
RECURSIVE ParseDigits(_, _)
ParseDigits(s, acc) ==
  IF s = <<>> THEN acc ELSE ParseDigits(Tail(s), acc * 10 + Head(s))
ParseInt(s) == ParseDigits(s, 0)

ParseAll(strs) == [i \in 1..Len(strs) |-> ParseInt(strs[i])]

----------------------------------------------------------------------------
\* YearFilter: {from?, to?, years?}

EmptyFilter == [from |-> None, to |-> None, years |-> None]

\* Mutants of isYearAllowedByFilter
\* a from/to pair is always read as one contiguous range
isYearAllowedByFilter_RangeAlwaysAnd(y, filter) ==
  IF filter = None THEN TRUE
  ELSE
    LET f == Val(filter)
        hasFrom == IsDef(f.from)
        hasTo == IsDef(f.to)
        hasYears == IsDef(f.years) /\ Len(Val(f.years)) > 0
    IN  IF hasYears /\ Includes(Val(f.years), y) THEN TRUE
        ELSE IF hasFrom /\ hasTo THEN y >= Val(f.from) /\ y <= Val(f.to)
        ELSE IF hasFrom THEN y >= Val(f.from)
        ELSE IF hasTo THEN y <= Val(f.to)
        ELSE IF hasYears THEN FALSE
        ELSE TRUE

\* the years list is consulted only after the from/to range
isYearAllowedByFilter_ListAfterRange(y, filter) ==
  IF filter = None THEN TRUE
  ELSE
    LET f == Val(filter)
        hasFrom == IsDef(f.from)
        hasTo == IsDef(f.to)
        hasYears == IsDef(f.years) /\ Len(Val(f.years)) > 0
    IN  IF hasFrom /\ hasTo THEN
             IF Val(f.to) < Val(f.from)
             THEN y <= Val(f.to) \/ y >= Val(f.from)
             ELSE y >= Val(f.from) /\ y <= Val(f.to)
        ELSE IF hasFrom THEN y >= Val(f.from)
        ELSE IF hasTo THEN y <= Val(f.to)
        ELSE IF hasYears THEN Includes(Val(f.years), y)
        ELSE TRUE

\* a years list without a range does not constrain
isYearAllowedByFilter_OnlyYearsUnconstrained(y, filter) ==
  IF filter = None THEN TRUE
  ELSE
    LET f == Val(filter)
        hasFrom == IsDef(f.from)
        hasTo == IsDef(f.to)
        hasYears == IsDef(f.years) /\ Len(Val(f.years)) > 0
    IN  IF hasYears /\ Includes(Val(f.years), y) THEN TRUE
        ELSE IF hasFrom /\ hasTo THEN
               IF Val(f.to) < Val(f.from)
               THEN y <= Val(f.to) \/ y >= Val(f.from)
               ELSE y >= Val(f.from) /\ y <= Val(f.to)
        ELSE IF hasFrom THEN y >= Val(f.from)
        ELSE IF hasTo THEN y <= Val(f.to)
        ELSE TRUE

isYearAllowedByFilter(y, filter) ==
  IF filter = None THEN TRUE
  ELSE
    LET f == Val(filter)
        hasFrom == IsDef(f.from)
        hasTo == IsDef(f.to)
        hasYears == IsDef(f.years) /\ Len(Val(f.years)) > 0
    IN  IF hasYears /\ Includes(Val(f.years), y) THEN TRUE
        ELSE IF hasFrom /\ hasTo THEN
               IF Val(f.to) < Val(f.from)
               THEN y <= Val(f.to) \/ y >= Val(f.from)
               ELSE y >= Val(f.from) /\ y <= Val(f.to)
        ELSE IF hasFrom THEN y >= Val(f.from)
        ELSE IF hasTo THEN y <= Val(f.to)
        ELSE IF hasYears THEN FALSE
        ELSE TRUE

\* Mutant of AllowListBranch: counts every supported year, listed or not
AllowListBranch_CountsAllSupported(supported, cf) ==
  LET listed == Val(cf.years)
      unsupportedAllowedYears == SelectSeq(listed, LAMBDA y : ~Includes(supported, y))
  IN  IF Len(supported) = Len(listed) THEN EmptyFilter
      ELSE IF Len(unsupportedAllowedYears) > 0
           THEN [from |-> None, to |-> None, years |-> Some(unsupportedAllowedYears)]
           ELSE EmptyFilter

\* Mutant of AllowListBranch: the listed years are returned as they are
AllowListBranch_ReturnsListed(supported, cf) ==
  LET listed == Val(cf.years)
      validSupportedYears == SelectSeq(supported, LAMBDA y : y \in Elems(listed))
  IN  IF Len(validSupportedYears) = Len(listed) THEN EmptyFilter
      ELSE [from |-> None, to |-> None, years |-> Some(listed)]

\* Allow-list-only branch of calculateDebugFilter
AllowListBranch(supported, cf) ==
  LET listed == Val(cf.years)
      validSupportedYears == SelectSeq(supported, LAMBDA y : y \in Elems(listed))
      unsupportedAllowedYears == SelectSeq(listed, LAMBDA y : ~Includes(supported, y))
  IN  IF Len(validSupportedYears) = Len(listed) THEN EmptyFilter
      ELSE IF Len(unsupportedAllowedYears) > 0
           THEN [from |-> None, to |-> None, years |-> Some(unsupportedAllowedYears)]
           ELSE EmptyFilter

\* Mutant of effectiveFirstYear: the generations' first year is ignored
effectiveFirstYear_IgnoresGenerations(gs, filter) ==
  IF filter = None THEN NegInfinity
  ELSE LET cf == Val(filter)
       IN  IF IsDef(cf.from) /\ (IsDef(cf.to) => Val(cf.to) >= Val(cf.from))
           THEN Fin(Val(cf.from))
           ELSE NegInfinity

\* Mutant of effectiveFirstYear: an OR pair tightens the range like an AND pair
effectiveFirstYear_TightensOrPair(gs, filter) ==
  LET start == IF IsDef(gs.firstYear) THEN Fin(Val(gs.firstYear)) ELSE NegInfinity
  IN  IF filter = None THEN start
      ELSE LET cf == Val(filter)
           IN  IF IsDef(cf.from) THEN MathMax(start, Fin(Val(cf.from))) ELSE start

effectiveFirstYear(gs, filter) ==
  LET start == IF IsDef(gs.firstYear) THEN Fin(Val(gs.firstYear)) ELSE NegInfinity
  IN  IF filter = None THEN start
      ELSE LET cf == Val(filter)
           IN  IF IsDef(cf.from) /\ IsDef(cf.to)
               THEN IF Val(cf.to) < Val(cf.from) THEN start
                    ELSE MathMax(start, Fin(Val(cf.from)))
               ELSE IF IsDef(cf.from) THEN MathMax(start, Fin(Val(cf.from)))
               ELSE start

effectiveLastYear(gs, filter) ==
  LET end == IF IsDef(gs.lastYear) THEN Fin(Val(gs.lastYear)) ELSE PosInfinity
  IN  IF filter = None THEN end
      ELSE LET cf == Val(filter)
           IN  IF IsDef(cf.from) /\ IsDef(cf.to)
               THEN IF Val(cf.to) < Val(cf.from) THEN end
                    ELSE MathMin(end, Fin(Val(cf.to)))
               ELSE IF IsDef(cf.from) THEN end
               ELSE IF IsDef(cf.to) THEN MathMin(end, Fin(Val(cf.to)))
               ELSE end

\* minYear / maxYear after clamping into the effective range
ClampedMinYear(supported, effFirst) ==
  LET minYear == MinOf(Elems(supported))
  IN  IF Less(Fin(minYear), effFirst) THEN effFirst.v ELSE minYear

ClampedMaxYear(supported, effLast) ==
  LET maxYear == MaxOf(Elems(supported))
  IN  IF Less(effLast, Fin(maxYear)) THEN effLast.v ELSE maxYear

\* Mutant of GapYears: every unsupported year of the gap, allowed or not
GapYears_NoFilterCheck(supported, minYear, maxYear, filter) ==
  SelectSeq(RangeSeq(minYear + 1, maxYear - 1), LAMBDA y : ~Includes(supported, y))

GapYears(supported, minYear, maxYear, filter) ==
  SelectSeq(RangeSeq(minYear + 1, maxYear - 1),
         LAMBDA y : ~Includes(supported, y) /\ isYearAllowedByFilter(y, filter))

\* Mutant of GeneralBranch: head and tail bounds are not checked against the
\* command filter
GeneralBranch_NoFilterCheck(supported, gs, filter) ==
  LET effFirst == effectiveFirstYear(gs, filter)
      effLast == effectiveLastYear(gs, filter)
      minYear == ClampedMinYear(supported, effFirst)
      maxYear == ClampedMaxYear(supported, effLast)
      toYear == minYear - 1
      fromYear == maxYear + 1
      gapYears == GapYears(supported, minYear, maxYear, filter)
  IN  [to |-> IF ~Less(Fin(toYear), effFirst) THEN Some(toYear) ELSE None,
       years |-> IF Len(gapYears) > 0 THEN Some(gapYears) ELSE None,
       from |-> IF ~Less(effLast, Fin(fromYear)) THEN Some(fromYear) ELSE None]

\* Mutant of GeneralBranch: head and tail start on the supported years
\* themselves (min and max, not min - 1 and max + 1)
GeneralBranch_BoundsOnSupported(supported, gs, filter) ==
  LET effFirst == effectiveFirstYear(gs, filter)
      effLast == effectiveLastYear(gs, filter)
      minYear == ClampedMinYear(supported, effFirst)
      maxYear == ClampedMaxYear(supported, effLast)
      toYear == minYear
      fromYear == maxYear
      gapYears == GapYears(supported, minYear, maxYear, filter)
  IN  [to |-> IF ~Less(Fin(toYear), effFirst) /\ isYearAllowedByFilter(toYear, filter)
              THEN Some(toYear) ELSE None,
       years |-> IF Len(gapYears) > 0 THEN Some(gapYears) ELSE None,
       from |-> IF ~Less(effLast, Fin(fromYear)) /\ isYearAllowedByFilter(fromYear, filter)
                THEN Some(fromYear) ELSE None]

GeneralBranch(supported, gs, filter) ==
  LET effFirst == effectiveFirstYear(gs, filter)
      effLast == effectiveLastYear(gs, filter)
      minYear == ClampedMinYear(supported, effFirst)
      maxYear == ClampedMaxYear(supported, effLast)
      toYear == minYear - 1
      fromYear == maxYear + 1
      gapYears == GapYears(supported, minYear, maxYear, filter)
  IN  [to |-> IF ~Less(Fin(toYear), effFirst) /\ isYearAllowedByFilter(toYear, filter)
              THEN Some(toYear) ELSE None,
       years |-> IF Len(gapYears) > 0 THEN Some(gapYears) ELSE None,
       from |-> IF ~Less(effLast, Fin(fromYear)) /\ isYearAllowedByFilter(fromYear, filter)
                THEN Some(fromYear) ELSE None]

IsAllowListOnly(filter) ==
  /\ IsDef(filter)
  /\ IsDef(Val(filter).years)
  /\ Len(Val(Val(filter).years)) > 0
  /\ Falsy(Val(filter).from)
  /\ Falsy(Val(filter).to)

\* Mutant of calculateDebugFilter: null instead of the empty filter
calculateDebugFilter_NullWhenResolved(strs, gs, filter) ==
  LET supported == ParseAll(strs)
      computed == IF IsAllowListOnly(filter)
                  THEN AllowListBranch(supported, Val(filter))
                  ELSE GeneralBranch(supported, gs, filter)
  IN  IF Len(supported) = 0 \/ computed = EmptyFilter THEN None ELSE Some(computed)

\* calculateDebugFilter: None models null, Some(f) a filter record
calculateDebugFilter(strs, gs, filter) ==
  LET supported == ParseAll(strs)
  IN  IF Len(supported) = 0 THEN None
      ELSE IF IsAllowListOnly(filter) THEN Some(AllowListBranch(supported, Val(filter)))
      ELSE Some(GeneralBranch(supported, gs, filter))

----------------------------------------------------------------------------
\* Filter optimizer

\* String comparison by code units, on strings of decimal digits
RECURSIVE StringLess(_, _)
StringLess(a, b) ==
  IF a = <<>> THEN b # <<>>
  ELSE IF b = <<>> THEN FALSE
  ELSE IF Head(a) # Head(b) THEN Head(a) < Head(b)
  ELSE StringLess(Tail(a), Tail(b))

\* String(n) for a non-negative integer: its decimal digits
RECURSIVE Digits(_)
Digits(n) == IF n < 10 THEN <<n>> ELSE Digits(n \div 10) \o <<n % 10>>

\* Array.prototype.sort() without a comparator: elements ordered as strings
RECURSIVE InsertByString(_, _)
InsertByString(x, s) ==
  IF s = <<>> THEN <<x>>
  ELSE IF StringLess(Digits(x), Digits(s[Len(s)]))
       THEN Append(InsertByString(x, SubSeq(s, 1, Len(s) - 1)), s[Len(s)])
       ELSE Append(s, x)

RECURSIVE DefaultSort(_)
DefaultSort(s) ==
  IF s = <<>> THEN <<>>
  ELSE InsertByString(s[Len(s)], DefaultSort(SubSeq(s, 1, Len(s) - 1)))

\* sort((a, b) => a - b)
RECURSIVE InsertByNumber(_, _)
InsertByNumber(x, s) ==
  IF s = <<>> THEN <<x>>
  ELSE IF x < s[Len(s)]
       THEN Append(InsertByNumber(x, SubSeq(s, 1, Len(s) - 1)), s[Len(s)])
       ELSE Append(s, x)

RECURSIVE NumericSort(_)
NumericSort(s) ==
  IF s = <<>> THEN <<>>
  ELSE InsertByNumber(s[Len(s)], NumericSort(SubSeq(s, 1, Len(s) - 1)))

UniverseFirstYear(gs) ==
  IF IsDef(gs.firstYear) THEN Val(gs.firstYear) ELSE DefaultFirstYear

\* Mutant of UniverseLastYear: the generation set's lastYear is not used
UniverseLastYear_AlwaysClock(gs, now) == now + DefaultLastYearOffset

UniverseLastYear(gs, now) ==
  IF IsDef(gs.lastYear) THEN Val(gs.lastYear) ELSE now + DefaultLastYearOffset

\* Mutant of AllowedYears: a year without evidence is not allowed
AllowedYears_OnlySupported(supported, unsupported, allYears) ==
  SelectSeq(allYears, LAMBDA y : y >= ProtocolFloor /\ Includes(supported, y))

\* Mutant of AllowedYears: no protocol floor
AllowedYears_NoProtocolFloor(supported, unsupported, allYears) ==
  SelectSeq(allYears, LAMBDA y : Includes(supported, y) \/ ~Includes(unsupported, y))

\* Mutant of AllowedYears: a confirmed unsupported year is never allowed
AllowedYears_IgnoresSupported(supported, unsupported, allYears) ==
  SelectSeq(allYears, LAMBDA y : y >= ProtocolFloor /\ ~Includes(unsupported, y))

AllowedYears(supported, unsupported, allYears) ==
  SelectSeq(allYears, LAMBDA y :
    y >= ProtocolFloor /\ (Includes(supported, y) \/ ~Includes(unsupported, y)))

\* Last year of the contiguous allowed run that starts at firstYear
RECURSIVE HeadRun(_, _, _, _)
HeadRun(y, lastYear, allowedYears, toYear) ==
  IF y > lastYear THEN toYear
  ELSE IF Includes(allowedYears, y) THEN HeadRun(y + 1, lastYear, allowedYears, Some(y))
  ELSE toYear

\* First year of the contiguous allowed run that ends at lastYear
RECURSIVE TailRun(_, _, _, _)
TailRun(y, firstYear, allowedYears, fromYear) ==
  IF y < firstYear THEN fromYear
  ELSE IF Includes(allowedYears, y) THEN TailRun(y - 1, firstYear, allowedYears, Some(y))
  ELSE fromYear

\* Mutant of MiddleYears: the allowed years between head and tail are dropped
MiddleYears_Dropped(allowedYears, toYear, fromYear) == <<>>

MiddleYears(allowedYears, toYear, fromYear) ==
  SelectSeq(allowedYears, LAMBDA y :
    IF IsDef(toYear) /\ y <= Val(toYear) THEN FALSE
    ELSE IF IsDef(fromYear) /\ y >= Val(fromYear) THEN FALSE
    ELSE TRUE)

OrForm(allowedYears, firstYear, lastYear) ==
  LET toYear == HeadRun(firstYear, lastYear, allowedYears, None)
      fromYear == TailRun(lastYear, firstYear, allowedYears, None)
      middleYears == MiddleYears(allowedYears, toYear, fromYear)
      filter == [to |-> IF IsDef(toYear) /\ Val(toYear) >= firstYear THEN toYear ELSE None,
                 from |-> IF IsDef(fromYear) /\ Val(fromYear) <= lastYear THEN fromYear ELSE None,
                 years |-> IF Len(middleYears) > 0 THEN Some(NumericSort(middleYears)) ELSE None]
  IN  IF filter = EmptyFilter THEN None ELSE Some(filter)

\* Mutant of RepresentAllowed: the from-only and to-only forms are not tried
RepresentAllowed_RangeFirst(allowedYears, firstYear, lastYear) ==
  LET minAllowed == MinOf(Elems(allowedYears))
      maxAllowed == MaxOf(Elems(allowedYears))
      sorted == DefaultSort(allowedYears)
  IN  IF sorted = RangeSeq(minAllowed, maxAllowed)
      THEN IF minAllowed = firstYear /\ maxAllowed = lastYear
           THEN Some(EmptyFilter)
           ELSE Some([from |-> Some(minAllowed), to |-> Some(maxAllowed), years |-> None])
      ELSE OrForm(sorted, firstYear, lastYear)

RepresentAllowed(allowedYears, firstYear, lastYear) ==
  LET minAllowed == MinOf(Elems(allowedYears))
      maxAllowed == MaxOf(Elems(allowedYears))
      sorted == DefaultSort(allowedYears)
  IN  IF /\ \A i \in 1..Len(allowedYears) : allowedYears[i] >= minAllowed
         /\ sorted = DefaultSort(RangeSeq(minAllowed, lastYear))
      THEN Some([from |-> Some(minAllowed), to |-> None, years |-> None])
      ELSE IF /\ \A i \in 1..Len(allowedYears) : allowedYears[i] <= maxAllowed
              /\ sorted = DefaultSort(RangeSeq(firstYear, maxAllowed))
      THEN Some([from |-> None, to |-> Some(maxAllowed), years |-> None])
      ELSE IF sorted = RangeSeq(minAllowed, maxAllowed)
      THEN IF minAllowed = firstYear /\ maxAllowed = lastYear
           THEN Some(EmptyFilter)
           ELSE Some([from |-> Some(minAllowed), to |-> Some(maxAllowed), years |-> None])
      ELSE OrForm(sorted, firstYear, lastYear)

\* Mutant of calculateOptimizedFilter: one missing year still counts as all
calculateOptimizedFilter_EmptyOffByOne(supStrs, unsupStrs, gs, now) ==
  LET supported == SelectSeq(ParseAll(supStrs), LAMBDA y : y >= ProtocolFloor)
      unsupported == ParseAll(unsupStrs)
      firstYear == UniverseFirstYear(gs)
      lastYear == UniverseLastYear(gs, now)
      allYears == RangeSeq(firstYear, lastYear)
      allowedYears == AllowedYears(supported, unsupported, allYears)
  IN  IF Len(supported) = 0 /\ Len(unsupported) = 0 THEN None
      ELSE IF Len(allowedYears) + 1 >= Len(allYears) THEN Some(EmptyFilter)
      ELSE IF Len(allowedYears) = 0 THEN None
      ELSE RepresentAllowed(allowedYears, firstYear, lastYear)

\* Mutant of calculateOptimizedFilter: the empty allowed set is tested before
\* the comparison of the two lengths
calculateOptimizedFilter_NullBeforeEmpty(supStrs, unsupStrs, gs, now) ==
  LET supported == SelectSeq(ParseAll(supStrs), LAMBDA y : y >= ProtocolFloor)
      unsupported == ParseAll(unsupStrs)
      firstYear == UniverseFirstYear(gs)
      lastYear == UniverseLastYear(gs, now)
      allYears == RangeSeq(firstYear, lastYear)
      allowedYears == AllowedYears(supported, unsupported, allYears)
  IN  IF Len(supported) = 0 /\ Len(unsupported) = 0 THEN None
      ELSE IF Len(allowedYears) = 0 THEN None
      ELSE IF Len(allowedYears) = Len(allYears) THEN Some(EmptyFilter)
      ELSE RepresentAllowed(allowedYears, firstYear, lastYear)

\* calculateOptimizedFilter: None models null, Some(f) a filter record
calculateOptimizedFilter(supStrs, unsupStrs, gs, now) ==
  LET supported == SelectSeq(ParseAll(supStrs), LAMBDA y : y >= ProtocolFloor)
      unsupported == ParseAll(unsupStrs)
      firstYear == UniverseFirstYear(gs)
      lastYear == UniverseLastYear(gs, now)
      allYears == RangeSeq(firstYear, lastYear)
      allowedYears == AllowedYears(supported, unsupported, allYears)
  IN  IF Len(supported) = 0 /\ Len(unsupported) = 0 THEN None
      ELSE IF Len(allowedYears) = Len(allYears) THEN Some(EmptyFilter)
      ELSE IF Len(allowedYears) = 0 THEN None
      ELSE RepresentAllowed(allowedYears, firstYear, lastYear)

----------------------------------------------------------------------------
\* Inputs

RECURSIVE SortedSeq(_)
SortedSeq(S) == IF S = {} THEN <<>>
                ELSE LET m == MinOf(S) IN <<m>> \o SortedSeq(S \ {m})

\* A set of years as the array of their decimal strings
YearStrings(S) == LET s == SortedSeq(S) IN [i \in 1..Len(s) |-> Digits(s[i])]

YearSetsOf(Y) == {YearStrings(S) : S \in SUBSET Y}
YearSets == YearSetsOf(Years)

OptYearOf(Y) == {None} \cup {Some(y) : y \in Y}
OptYear == OptYearOf(Years)

\* years lists as serialized: strictly ascending, no duplicates
AscendingLists == {SortedSeq(S) : S \in {T \in SUBSET Years : Cardinality(T) <= MaxYearsLen}}

\* years lists as a hand-edited file may hold them: any order, duplicates
AnyLists == UNION {[1..n -> Years] : n \in 0..MaxYearsLen}

FiltersOver(lists) == {None} \cup
  {Some([from |-> f, to |-> t, years |-> ys]) :
     f \in OptYear, t \in OptYear, ys \in {None} \cup {Some(l) : l \in lists}}

GenerationSetsOf(Y) ==
  {g \in [firstYear : OptYearOf(Y), lastYear : OptYearOf(Y)] :
     IsDef(g.firstYear) /\ IsDef(g.lastYear) => Val(g.firstYear) <= Val(g.lastYear)}
GenerationSets == GenerationSetsOf(Years)

Gens(a, b) == [firstYear |-> Some(a), lastYear |-> Some(b)]
YF(f, t, ys) == Some([from |-> f, to |-> t, years |-> ys])

\* Inputs of the repository's tests (debugFilterCalculator.test.ts)
Test1 == [s |-> 2018..2025, g |-> Gens(2007, 2030), f |-> YF(Some(2018), None, None)]
Test2 == [s |-> 2018..2025, g |-> Gens(2007, 2030), f |-> None]
Test3 == [s |-> 2015..2020, g |-> Gens(2007, 2030), f |-> YF(None, Some(2020), None)]
Test4 == [s |-> 2018..2022, g |-> Gens(2007, 2030), f |-> YF(Some(2018), Some(2022), None)]
Test5 == [s |-> (2018..2020) \cup (2023..2025), g |-> Gens(2007, 2030),
          f |-> YF(Some(2018), None, None)]
Test6 == [s |-> (2010..2015) \cup (2020..2025), g |-> Gens(2007, 2030),
          f |-> YF(Some(2020), Some(2015), None)]
Test7 == [s |-> {}, g |-> Gens(2007, 2030), f |-> None]
Test8 == [s |-> {2007}, g |-> Gens(2005, 2010), f |-> YF(None, None, Some(<<2007>>))]
Test9 == [s |-> {2008}, g |-> Gens(2005, 2010), f |-> YF(None, None, Some(<<2007, 2009>>))]
Test10 == [s |-> (2007..2011) \cup {2013, 2015} \cup (2021..2025), g |-> Gens(2005, 2030),
           f |-> YF(Some(2022), Some(2011), Some(<<2013, 2015, 2021>>))]
Test11 == [s |-> (2007..2011) \cup (2022..2025), g |-> Gens(2005, 2030),
           f |-> YF(Some(2022), Some(2011), Some(<<2013, 2015, 2021>>))]
Tests == {Test1, Test2, Test3, Test4, Test5, Test6, Test7, Test8, Test9, Test10, Test11}

IsTest(t) ==
  /\ generationSet = t.g
  /\ commandFilter = t.f
  /\ supportedYears = YearStrings(t.s)

----------------------------------------------------------------------------
\* Debug-filter synthesizer: calculateDebugFilter on serialized filters

Idle ==
  /\ year = 0
  /\ currentYear = 0
  /\ pc = "call"
  /\ result = None
  /\ HeapIdle /\ HandlersIdle /\ CacheIdle

Init ==
  /\ \/ /\ supportedYears \in YearSets
        /\ generationSet \in GenerationSets
        /\ commandFilter \in FiltersOver(AscendingLists)
     \/ \E t \in Tests : IsTest(t)
  /\ unsupportedYears = <<>>
  /\ Idle

CalculateDebugFilter ==
  /\ pc = "call"
  /\ result' = calculateDebugFilter(supportedYears, generationSet, commandFilter)
  /\ pc' = "done"
  /\ UNCHANGED <<supportedYears, unsupportedYears, generationSet, commandFilter,
                 year, currentYear, heapVars, handlerVars, cacheVars>>

Next == CalculateDebugFilter

Spec == Init /\ [][Next]_vars

\* calculateDebugFilter on commands whose filter is an allow-list only
InitAllowList ==
  /\ supportedYears \in YearSets
  /\ generationSet \in GenerationSets
  /\ commandFilter \in {YF(None, None, Some(l)) : l \in AnyLists \ {<<>>}}
  /\ unsupportedYears = <<>>
  /\ Idle

SpecAllowList == InitAllowList /\ [][Next]_vars

----------------------------------------------------------------------------
\* YearFilter predicate

InitPredicate ==
  /\ commandFilter \in FiltersOver(AnyLists)
  /\ year \in (FirstModelYear - 1) .. (FirstModelYear + NumYears)
  /\ supportedYears = <<>>
  /\ unsupportedYears = <<>>
  /\ generationSet = [firstYear |-> None, lastYear |-> None]
  /\ currentYear = 0
  /\ pc = "call"
  /\ result = None
  /\ HeapIdle /\ HandlersIdle /\ CacheIdle

IsYearAllowed ==
  /\ pc = "call"
  /\ result' = Some(isYearAllowedByFilter(year, commandFilter))
  /\ pc' = "done"
  /\ UNCHANGED <<supportedYears, unsupportedYears, generationSet, commandFilter,
                 year, currentYear, heapVars, handlerVars, cacheVars>>

NextPredicate == IsYearAllowed

SpecPredicate == InitPredicate /\ [][NextPredicate]_vars

----------------------------------------------------------------------------
\* Filter optimizer

\* Calls with the years of a real model line: seven supported model years
\* inside the generations 2007..2030, without and with the earlier years
\* reported unsupported
SupportedTail == [s |-> 2018..2024, u |-> {}, g |-> Gens(2007, 2030)]
SupportedTailAfterUnsupported == [s |-> 2018..2024, u |-> 2007..2017, g |-> Gens(2007, 2030)]
OptimizeExamples == {SupportedTail, SupportedTailAfterUnsupported}

IsExample(e) ==
  /\ generationSet = e.g
  /\ supportedYears = YearStrings(e.s)
  /\ unsupportedYears = YearStrings(e.u)

InitOptimize ==
  /\ \/ /\ supportedYears \in YearSetsOf(EvidenceYears)
        /\ unsupportedYears \in YearSetsOf(EvidenceYears)
        /\ generationSet \in GenerationSetsOf(EvidenceYears)
     \/ \E e \in OptimizeExamples : IsExample(e)
  /\ currentYear = ClockYear
  /\ commandFilter = None
  /\ year = 0
  /\ pc = "call"
  /\ result = None
  /\ HeapIdle /\ HandlersIdle /\ CacheIdle

CalculateOptimizedFilter ==
  /\ pc = "call"
  /\ result' = calculateOptimizedFilter(supportedYears, unsupportedYears,
                                        generationSet, currentYear)
  /\ pc' = "done"
  /\ UNCHANGED <<supportedYears, unsupportedYears, generationSet, commandFilter,
                 year, currentYear, heapVars, handlerVars, cacheVars>>

NextOptimize == CalculateOptimizedFilter

SpecOptimize == InitOptimize /\ [][NextOptimize]_vars

\* calculateOptimizedFilter called in different years, on evidence around the
\* last year of the default universe
Clocks == {ClockYear, ClockYear + 1}
HorizonYears ==
  (ClockYear + DefaultLastYearOffset - 1) .. (ClockYear + DefaultLastYearOffset + 2)

InitClock ==
  /\ supportedYears \in YearSetsOf(HorizonYears)
  /\ unsupportedYears \in YearSetsOf(HorizonYears)
  /\ generationSet \in GenerationSetsOf(HorizonYears)
  /\ currentYear \in Clocks
  /\ commandFilter = None
  /\ year = 0
  /\ pc = "call"
  /\ result = None
  /\ HeapIdle /\ HandlersIdle /\ CacheIdle

SpecClock == InitClock /\ [][NextOptimize]_vars

\* calculateOptimizedFilter on evidence that may contradict itself, for
\* model lines whose generations have a first and a last year
InitContradiction ==
  /\ supportedYears \in YearSetsOf(EvidenceYears)
  /\ unsupportedYears \in YearSetsOf(EvidenceYears)
  /\ generationSet \in {g \in GenerationSetsOf(EvidenceYears) :
                          IsDef(g.firstYear) /\ IsDef(g.lastYear)}
  /\ currentYear = ClockYear
  /\ commandFilter = None
  /\ year = 0
  /\ pc = "call"
  /\ result = None
  /\ HeapIdle /\ HandlersIdle /\ CacheIdle

SpecContradiction == InitContradiction /\ [][NextOptimize]_vars

----------------------------------------------------------------------------
\* The two calculators on arrays held by reference. heap is the sequence of
\* arrays alive during a call and a reference is an index into it: the
\* caller's three arrays come first, every array a call builds is appended.

SupportedRef == 1      \* supportedYears
UnsupportedRef == 2    \* unsupportedYears
FilterYearsRef == 3    \* commandFilter.years

\* map(y => parseInt(y, 10)): a new array
MapParseInt(h, r) == Append(h, ParseAll(h[r]))
\* filter(...), [] with its pushes: a new array with the given content
NewArray(h, content) == Append(h, content)
\* sort(): reorders the array behind r and returns r
SortInPlace(h, r, sorted) == [h EXCEPT ![r] = sorted]
LastRef(h) == Len(h)

\* The command filter as the callee reads it: its years are the array behind
\* FilterYearsRef
FilterOnHeap(h, filter) ==
  IF IsDef(filter) /\ IsDef(Val(filter).years)
  THEN Some([Val(filter) EXCEPT !.years = Some(h[FilterYearsRef])])
  ELSE filter

\* Mutant of UnsupportedAllowedYears: the command's own list is narrowed and
\* handed back
UnsupportedAllowedYears_InPlace(h, supported) ==
  [heap |-> SortInPlace(h, FilterYearsRef,
                        SelectSeq(h[FilterYearsRef], LAMBDA y : ~Includes(supported, y))),
   ref |-> FilterYearsRef]

\* commandFilter.years.filter(year => !supported.includes(year))
UnsupportedAllowedYears(h, supported) ==
  LET h1 == NewArray(h, SelectSeq(h[FilterYearsRef], LAMBDA y : ~Includes(supported, y)))
  IN  [heap |-> h1, ref |-> LastRef(h1)]

\* calculateDebugFilter: the heap it leaves, its result and the array that
\* result.years refers to
calculateDebugFilterOnHeap(h, gs, filter) ==
  LET h1 == MapParseInt(h, SupportedRef)
      supported == h1[LastRef(h1)]
  IN  IF Len(supported) = 0
      THEN [heap |-> h1, result |-> None, yearsRef |-> None]
      ELSE IF IsAllowListOnly(FilterOnHeap(h1, filter))
      THEN LET listed == h1[FilterYearsRef]
               h2 == NewArray(h1, SelectSeq(supported, LAMBDA y : y \in Elems(listed)))
               validSupportedYears == h2[LastRef(h2)]
               narrowed == UnsupportedAllowedYears(h2, supported)
               h3 == narrowed.heap
               unsupportedAllowedYears == h3[narrowed.ref]
           IN  IF Len(validSupportedYears) = Len(listed)
               THEN [heap |-> h2, result |-> Some(EmptyFilter), yearsRef |-> None]
               ELSE IF Len(unsupportedAllowedYears) > 0
               THEN [heap |-> h3,
                     result |-> Some([from |-> None, to |-> None,
                                      years |-> Some(unsupportedAllowedYears)]),
                     yearsRef |-> Some(narrowed.ref)]
               ELSE [heap |-> h3, result |-> Some(EmptyFilter), yearsRef |-> None]
      ELSE LET general == GeneralBranch(supported, gs, FilterOnHeap(h1, filter))
               h2 == NewArray(h1, IF IsDef(general.years) THEN Val(general.years) ELSE <<>>)
           IN  [heap |-> h2, result |-> Some(general),
                yearsRef |-> IF IsDef(general.years) THEN Some(LastRef(h2)) ELSE None]

\* calculateOptimizedFilter likewise. The arrays expectedYears and rangeYears
\* are built, compared and dropped inside RepresentAllowed; allowedYears is
\* sorted in place, and result.years is the array middleYears
calculateOptimizedFilterOnHeap(h, gs, now) ==
  LET h1 == MapParseInt(h, SupportedRef)
      h2 == NewArray(h1, SelectSeq(h1[LastRef(h1)], LAMBDA y : y >= ProtocolFloor))
      supported == h2[LastRef(h2)]
      h3 == MapParseInt(h2, UnsupportedRef)
      unsupported == h3[LastRef(h3)]
      firstYear == UniverseFirstYear(gs)
      lastYear == UniverseLastYear(gs, now)
      h4 == NewArray(h3, RangeSeq(firstYear, lastYear))
      allYears == h4[LastRef(h4)]
      h5 == NewArray(h4, AllowedYears(supported, unsupported, allYears))
      allowedRef == LastRef(h5)
      allowedYears == h5[allowedRef]
      h6 == SortInPlace(h5, allowedRef, DefaultSort(allowedYears))
      computed == RepresentAllowed(allowedYears, firstYear, lastYear)
      h7 == NewArray(h6, Val(Val(computed).years))
  IN  IF Len(supported) = 0 /\ Len(unsupported) = 0
      THEN [heap |-> h3, result |-> None, yearsRef |-> None]
      ELSE IF Len(allowedYears) = Len(allYears)
      THEN [heap |-> h5, result |-> Some(EmptyFilter), yearsRef |-> None]
      ELSE IF Len(allowedYears) = 0
      THEN [heap |-> h5, result |-> None, yearsRef |-> None]
      ELSE IF IsDef(computed) /\ IsDef(Val(computed).years)
      THEN [heap |-> h7, result |-> computed, yearsRef |-> Some(LastRef(h7))]
      ELSE [heap |-> h6, result |-> computed, yearsRef |-> None]

HeapYears == FirstModelYear .. (FirstModelYear + NumHeapYears - 1)

\* years lists of a command file: any order, duplicates
HeapLists == UNION {[1..n -> HeapYears] : n \in 0..MaxHeapListLen}

HeapFilters == {None} \cup
  {Some([from |-> f, to |-> t, years |-> ys]) :
     f \in OptYearOf(HeapYears), t \in OptYearOf(HeapYears),
     ys \in {None} \cup {Some(l) : l \in HeapLists}}

\* Generation sets bounded, if at all, by the first and the last heap year
HeapGenerationSets == GenerationSetsOf({FirstModelYear, FirstModelYear + NumHeapYears - 1})

\* The caller's arrays; a filter without years has no array behind
\* FilterYearsRef
CallerHeap ==
  <<supportedYears, unsupportedYears,
    IF IsDef(commandFilter) /\ IsDef(Val(commandFilter).years)
    THEN Val(Val(commandFilter).years) ELSE <<>> >>

InitHeap ==
  /\ supportedYears \in YearSetsOf(HeapYears)
  /\ generationSet \in HeapGenerationSets
  /\ \/ /\ pc = "callDebug"
        /\ unsupportedYears = <<>>
        /\ commandFilter \in HeapFilters
        /\ currentYear = 0
     \/ /\ pc = "callOptimize"
        /\ unsupportedYears \in YearSetsOf(HeapYears)
        /\ commandFilter = None
        /\ currentYear = ClockYear
  /\ heap = CallerHeap
  /\ yearsRef = None
  /\ year = 0
  /\ result = None
  /\ HandlersIdle /\ CacheIdle

CalculateDebugFilterOnHeap ==
  /\ pc = "callDebug"
  /\ LET call == calculateDebugFilterOnHeap(heap, generationSet, commandFilter)
     IN  /\ heap' = call.heap
         /\ result' = call.result
         /\ yearsRef' = call.yearsRef
  /\ pc' = "done"
  /\ UNCHANGED <<supportedYears, unsupportedYears, generationSet, commandFilter,
                 year, currentYear, handlerVars, cacheVars>>

CalculateOptimizedFilterOnHeap ==
  /\ pc = "callOptimize"
  /\ LET call == calculateOptimizedFilterOnHeap(heap, generationSet, currentYear)
     IN  /\ heap' = call.heap
         /\ result' = call.result
         /\ yearsRef' = call.yearsRef
  /\ pc' = "done"
  /\ UNCHANGED <<supportedYears, unsupportedYears, generationSet, commandFilter,
                 year, currentYear, handlerVars, cacheVars>>

NextHeap == CalculateDebugFilterOnHeap \/ CalculateOptimizedFilterOnHeap

SpecHeap == InitHeap /\ [][NextHeap]_vars

----------------------------------------------------------------------------
\* Commands of a signal-set document, the CodeLens provider and the handlers
\* that edit a command

\* A filter sub-record as written in the document: its keys in order, each
\* with its numbers (one number for "to" and "from")
KeyValue(f, k) == [key |-> k, value |-> IF k = "years" THEN Val(f.years) ELSE <<Val(f[k])>>]

\* JSON.stringify of a filter whose keys were assigned in the given order
JSONStringify(f, order) ==
  LET present == SelectSeq(order, LAMBDA k : IsDef(f[k]))
  IN  [i \in 1..Len(present) |-> KeyValue(f, present[i])]

\* Keys in the order calculateDebugFilter assigns them
DebugFilterKeys == <<"to", "years", "from">>

\* Keys in the order calculateOptimizedFilter assigns them: from, to for a
\* range, else to, from, years
OptimizedFilterKeys(f) ==
  IF IsDef(f.from) /\ IsDef(f.to) /\ Val(f.from) <= Val(f.to)
  THEN <<"from", "to", "years">>
  ELSE <<"to", "from", "years">>

\* formatDebugFilter / formatFilter of the handlers
formatDebugFilter(f) == JSONStringify(f, <<"to", "years", "from">>)

HasKey(text, k) == \E i \in 1..Len(text) : text[i].key = k
LastValue(text, k) ==
  text[CHOOSE i \in 1..Len(text) :
         text[i].key = k /\ \A j \in (i + 1)..Len(text) : text[j].key # k].value

\* JSON.parse of a filter sub-record
JSONParse(text) ==
  [to |-> IF HasKey(text, "to") THEN Some(LastValue(text, "to")[1]) ELSE None,
   years |-> IF HasKey(text, "years") THEN Some(LastValue(text, "years")) ELSE None,
   from |-> IF HasKey(text, "from") THEN Some(LastValue(text, "from")[1]) ELSE None]

\* The argument a handler receives as its filter
Undefined == [type |-> "undefined", value |-> EmptyFilter]
Null == [type |-> "null", value |-> EmptyFilter]
Object(f) == [type |-> "object", value |-> f]

\* A calculator's result as a handler argument
AsArgument(r) == IF IsDef(r) THEN Object(Val(r)) ELSE Null

ObjectKeys(f) == SelectSeq(DebugFilterKeys, LAMBDA k : IsDef(f[k]))

\* Mutant of shouldRemoveFilter: the empty object is not tested
shouldRemoveFilter_NotEmptyObject(arg) ==
  arg.type = "undefined" \/ arg.type = "null"

shouldRemoveFilter(arg) ==
  \/ arg.type = "undefined"
  \/ arg.type = "null"
  \/ (arg.type = "object" /\ Len(ObjectKeys(arg.value)) = 0)

\* The two replace calls that delete a property of the command
RemoveDbgFilter(c) == [c EXCEPT !.dbgfilter = None]
RemoveFilter(c) == [c EXCEPT !.filter = None]
RemoveDbg(c) == [c EXCEPT !.dbg = FALSE]

\* replace(/"dbgfilter"\s*:\s*\{[^}]*\}/g, ...): only an existing sub-record
ReplaceDbgFilter(c, text) ==
  IF IsDef(c.dbgfilter) THEN [c EXCEPT !.dbgfilter = Some(text)] ELSE c

\* Insertion before "signals" or the closing brace
InsertDbgFilter(c, text) == [c EXCEPT !.dbgfilter = Some(text)]

\* obdb.optimizeDebugFilter
optimizeDebugFilterCommand(c, arg) ==
  IF shouldRemoveFilter(arg) THEN RemoveDbgFilter(c)
  ELSE ReplaceDbgFilter(c, formatDebugFilter(arg.value))

\* obdb.optimizeFilter
optimizeFilterCommand(c, arg) ==
  IF shouldRemoveFilter(arg) THEN RemoveFilter(c)
  ELSE IF IsDef(c.filter) THEN [c EXCEPT !.filter = Some(formatDebugFilter(arg.value))]
  ELSE IF c.freq THEN [c EXCEPT !.filter = Some(formatDebugFilter(arg.value))]
  ELSE c

\* obdb.optimizeAllDebugFilters, the edit of one optimization
ApplyOptimization(c, opt) ==
  IF shouldRemoveFilter(opt.optimizedFilter)
  THEN RemoveDbg(IF ~opt.isNew THEN RemoveDbgFilter(c) ELSE c)
  ELSE IF opt.isNew
  THEN InsertDbgFilter(RemoveDbg(c), formatDebugFilter(opt.optimizedFilter.value))
  ELSE ReplaceDbgFilter(c, formatDebugFilter(opt.optimizedFilter.value))

\* The keys of a sub-record in the order of the document
KeysOf(text) == [i \in 1..Len(text) |-> text[i].key]

\* JSON.stringify(existingDbgFilter) of the parsed sub-record
ExistingFilterStr(text) == JSONStringify(JSONParse(text), KeysOf(text))

\* What both the provider and the bulk command read off a command
commandFilterOf(c) == IF IsDef(c.filter) THEN Some(JSONParse(Val(c.filter))) ELSE None

\* JSON.stringify(calculatedFilter || {})
CalculatedFilterStr(calculated, order) ==
  IF IsDef(calculated) THEN JSONStringify(Val(calculated), order) ELSE <<>>

\* obdb.optimizeAllDebugFilters, the scan of one command: the optimizations
\* it collects
Optimizations(c, supStrs, gs) ==
  LET hasDebug == c.dbg
      existing == c.dbgfilter
      canOptimize == IF hasDebug THEN Len(supStrs) > 0 ELSE TRUE
      calculatedFilter == IF Len(supStrs) > 0
                          THEN calculateDebugFilter(supStrs, gs, commandFilterOf(c))
                          ELSE None
      shouldApply ==
        IF hasDebug /\ ~IsDef(existing)
        THEN IsDef(calculatedFilter) /\ Len(ObjectKeys(Val(calculatedFilter))) > 0
        ELSE IF IsDef(existing)
        THEN ExistingFilterStr(Val(existing))
               # CalculatedFilterStr(calculatedFilter, DebugFilterKeys)
        ELSE FALSE
  IN  IF (hasDebug \/ IsDef(existing)) /\ canOptimize /\ shouldApply
      THEN <<[optimizedFilter |-> AsArgument(calculatedFilter),
              isNew |-> hasDebug /\ ~IsDef(existing)]>>
      ELSE <<>>

Lens(name, arg) == [command |-> name, argument |-> arg]

\* CommandCodeLensProvider.provideCodeLenses for one command
provideCodeLenses(c, supStrs, unsupStrs, gs, now) ==
  LET hasDebug == c.dbg
      existing == c.dbgfilter
      filter == commandFilterOf(c)
      finalUnsupportedYears ==
        SelectSeq(unsupStrs, LAMBDA y : ~Includes(supStrs, y))
      debugFilter == calculateDebugFilter(supStrs, gs, filter)
      optimizedFilter == calculateOptimizedFilter(supStrs, finalUnsupportedYears, gs, now)
      existingFilterStr == IF IsDef(c.filter) THEN ExistingFilterStr(Val(c.filter)) ELSE <<>>
      optimizedFilterStr ==
        IF IsDef(optimizedFilter)
        THEN JSONStringify(Val(optimizedFilter), OptimizedFilterKeys(Val(optimizedFilter)))
        ELSE <<>>
  IN  {Lens("", Undefined)}
      \cup (IF hasDebug /\ Len(supStrs) > 0
               /\ IsDef(debugFilter) /\ Len(ObjectKeys(Val(debugFilter))) > 0
            THEN {Lens("obdb.applyDebugFilter", AsArgument(debugFilter))} ELSE {})
      \cup (IF IsDef(existing) /\ Len(supStrs) > 0
               /\ ExistingFilterStr(Val(existing))
                    # CalculatedFilterStr(debugFilter, DebugFilterKeys)
            THEN {Lens("obdb.optimizeDebugFilter", AsArgument(debugFilter))} ELSE {})
      \cup (IF (Len(supStrs) > 0 \/ Len(finalUnsupportedYears) > 0)
               /\ existingFilterStr # optimizedFilterStr /\ IsDef(optimizedFilter)
            THEN {Lens("obdb.optimizeFilter", AsArgument(optimizedFilter))} ELSE {})

\* Filters of the documents: an empty one, bounds on the second and on the
\* last model year, one listed year
DocumentFirst == FirstModelYear + 1
DocumentLast == FirstModelYear + NumYears - 1
DocumentFilters ==
  {[from |-> f, to |-> t, years |-> None] :
     f \in OptYearOf({DocumentLast}), t \in OptYearOf({DocumentFirst})}
  \cup {[from |-> None, to |-> None, years |-> Some(<<DocumentFirst + 1>>)]}

\* Sub-records as the writers leave them, and one with its keys in another
\* order
FilterTexts == {formatDebugFilter(f) : f \in DocumentFilters}
DbgFilterTexts == FilterTexts \cup
  {JSONStringify([from |-> Some(DocumentLast), to |-> Some(DocumentFirst), years |-> None],
                 <<"from", "to">>)}

OptOf(S) == {None} \cup {Some(x) : x \in S}

Commands ==
  [dbg : BOOLEAN, dbgfilter : OptOf(DbgFilterTexts), filter : OptOf(FilterTexts),
   freq : BOOLEAN]

HandlerArguments == {Undefined, Null} \cup {Object(f) : f \in DocumentFilters}

DocumentGenerationSets ==
  {[firstYear |-> None, lastYear |-> None],
   Gens(FirstModelYear, DocumentLast), Gens(DocumentFirst, DocumentLast)}

\* Either a handler is invoked with an argument of the caller's choice
\* (vscode.commands.executeCommand), or a document is opened in a workspace
\* with support data and generations
InitDocument ==
  /\ command \in {Some(c) : c \in Commands}
  /\ \/ /\ pc = "invoke"
        /\ handlerArg \in {Some(a) : a \in HandlerArguments}
        /\ supportedYears = <<>>
        /\ unsupportedYears = <<>>
        /\ generationSet = [firstYear |-> None, lastYear |-> None]
     \/ /\ pc = "open"
        /\ handlerArg = None
        /\ supportedYears \in YearSets
        /\ unsupportedYears \in YearSetsOf({DocumentFirst})
        /\ generationSet \in DocumentGenerationSets
  /\ currentYear = ClockYear
  /\ commandFilter = None
  /\ year = 0
  /\ result = None
  /\ edited = None
  /\ lenses = None
  /\ HeapIdle /\ CacheIdle

Edit(name, c) == Some([by |-> name, command |-> c])

\* The arguments a handler can be invoked with: the caller's, or those of a
\* lens the provider returned
Invocations(name) ==
  IF pc = "invoke" THEN {Val(handlerArg)}
  ELSE IF pc = "lensed" THEN {l.argument : l \in {k \in Val(lenses) : k.command = name}}
  ELSE {}

ProvideCodeLenses ==
  /\ pc = "open"
  /\ lenses' = Some(provideCodeLenses(Val(command), supportedYears, unsupportedYears,
                                      generationSet, currentYear))
  /\ pc' = "lensed"
  /\ UNCHANGED <<supportedYears, unsupportedYears, generationSet, commandFilter,
                 year, currentYear, result, heapVars, command, handlerArg, edited,
                 cacheVars>>

OptimizeDebugFilter ==
  /\ \E arg \in Invocations("obdb.optimizeDebugFilter") :
       /\ handlerArg' = Some(arg)
       /\ edited' = Edit("obdb.optimizeDebugFilter",
                         optimizeDebugFilterCommand(Val(command), arg))
  /\ pc' = "done"
  /\ UNCHANGED <<supportedYears, unsupportedYears, generationSet, commandFilter,
                 year, currentYear, result, heapVars, command, lenses, cacheVars>>

OptimizeFilter ==
  /\ \E arg \in Invocations("obdb.optimizeFilter") :
       /\ handlerArg' = Some(arg)
       /\ edited' = Edit("obdb.optimizeFilter", optimizeFilterCommand(Val(command), arg))
  /\ pc' = "done"
  /\ UNCHANGED <<supportedYears, unsupportedYears, generationSet, commandFilter,
                 year, currentYear, result, heapVars, command, lenses, cacheVars>>

\* obdb.optimizeAllDebugFilters on the open document: scan, confirmation,
\* edit
OptimizeAllDebugFilters ==
  /\ pc = "lensed"
  /\ LET optimizations == Optimizations(Val(command), supportedYears, generationSet)
     IN  IF Len(optimizations) = 0
         THEN /\ handlerArg' = None
              /\ edited' = Edit("obdb.optimizeAllDebugFilters", Val(command))
         ELSE /\ handlerArg' = Some(optimizations[1].optimizedFilter)
              /\ \E action \in {"Yes", "No"} :
                   edited' = Edit("obdb.optimizeAllDebugFilters",
                                  IF action = "Yes"
                                  THEN ApplyOptimization(Val(command), optimizations[1])
                                  ELSE Val(command))
  /\ pc' = "done"
  /\ UNCHANGED <<supportedYears, unsupportedYears, generationSet, commandFilter,
                 year, currentYear, result, heapVars, command, lenses, cacheVars>>

NextDocument ==
  \/ ProvideCodeLenses
  \/ OptimizeDebugFilter
  \/ OptimizeFilter
  \/ OptimizeAllDebugFilters

SpecDocument == InitDocument /\ [][NextDocument]_vars

----------------------------------------------------------------------------
\* CommandSupportCache.getYamlFile for one path. file is the version of the
\* file on disk: every modification gives it a fresh modification time, so a
\* version stands for its mtimeMs and for the data its content parses to.
\* A call is suspended at its two awaits (stat, readFile); other calls and
\* modifications of the file run in between.

StartedCall == [pc |-> "stat", currentMtime |-> 0, data |-> 0, hit |-> FALSE]

InitCache ==
  /\ file = 1
  /\ yamlCache = None
  /\ calls = [i \in 1..NumCalls |-> StartedCall]
  /\ supportedYears = <<>>
  /\ unsupportedYears = <<>>
  /\ generationSet = [firstYear |-> None, lastYear |-> None]
  /\ commandFilter = None
  /\ year = 0
  /\ currentYear = 0
  /\ pc = "call"
  /\ result = None
  /\ HeapIdle /\ HandlersIdle

FrameOfCache ==
  UNCHANGED <<supportedYears, unsupportedYears, generationSet, commandFilter,
              year, currentYear, pc, result, heapVars, handlerVars>>

\* The file is written by another process
Modify ==
  /\ file < MaxFileVersion
  /\ file' = file + 1
  /\ UNCHANGED <<yamlCache, calls>>
  /\ FrameOfCache

\* await fs.promises.stat(filePath); currentMtime = stat.mtimeMs
Stat(i) ==
  /\ calls[i].pc = "stat"
  /\ calls' = [calls EXCEPT ![i].pc = "lookup", ![i].currentMtime = file]
  /\ UNCHANGED <<file, yamlCache>>
  /\ FrameOfCache

\* yamlCache.get(filePath); a hit returns cached.data
Lookup(i) ==
  /\ calls[i].pc = "lookup"
  /\ IF IsDef(yamlCache) /\ Val(yamlCache).mtime = calls[i].currentMtime
     THEN calls' = [calls EXCEPT ![i].pc = "done", ![i].hit = TRUE,
                                 ![i].data = Val(yamlCache).data]
     ELSE calls' = [calls EXCEPT ![i].pc = "readFile"]
  /\ UNCHANGED <<file, yamlCache>>
  /\ FrameOfCache

\* await fs.promises.readFile(filePath, 'utf-8')
ReadFile(i) ==
  /\ calls[i].pc = "readFile"
  /\ calls' = [calls EXCEPT ![i].pc = "set", ![i].data = file]
  /\ UNCHANGED <<file, yamlCache>>
  /\ FrameOfCache

\* loadCommandSupportYaml(content); yamlCache.set(filePath, {mtime, data});
\* return data
SetAndReturn(i) ==
  /\ calls[i].pc = "set"
  /\ yamlCache' = Some([mtime |-> calls[i].currentMtime, data |-> calls[i].data])
  /\ calls' = [calls EXCEPT ![i].pc = "done"]
  /\ UNCHANGED file
  /\ FrameOfCache

NextCache ==
  \/ Modify
  \/ \E i \in 1..NumCalls : Stat(i)
  \/ \E i \in 1..NumCalls : Lookup(i)
  \/ \E i \in 1..NumCalls : ReadFile(i)
  \/ \E i \in 1..NumCalls : SetAndReturn(i)

SpecCache == InitCache /\ [][NextCache]_vars

----------------------------------------------------------------------------
\* Properties

Done == pc = "done"

\* The evidence and the command filter as the claims read them
Supported == Elems(ParseAll(supportedYears))
Unsupported == Elems(ParseAll(unsupportedYears))
HasFilter == IsDef(commandFilter)
CF == Val(commandFilter)
R == Val(result)

\* Years around everything the inputs mention
Mentioned ==
  Supported \cup Unsupported \cup {FirstModelYear}
  \cup Elems(generationSet.firstYear) \cup Elems(generationSet.lastYear)
  \cup (IF HasFilter
        THEN Elems(CF.from) \cup Elems(CF.to)
             \cup (IF IsDef(CF.years) THEN Elems(Val(CF.years)) ELSE {})
        ELSE {})
Window == (MinOf(Mentioned) - 2) .. (MaxOf(Mentioned) + 2)

\* y lies inside the generation boundary [firstYear, lastYear]; an absent
\* bound is unbounded
InBoundary(y) ==
  /\ IsDef(generationSet.firstYear) => y >= Val(generationSet.firstYear)
  /\ IsDef(generationSet.lastYear) => y <= Val(generationSet.lastYear)

\* The year predicate as section 4.1 of the specification states it
AllowsRef(y, filter) ==
  IF filter = None THEN TRUE
  ELSE LET f == Val(filter)
       IN  IF IsDef(f.years) /\ y \in Elems(Val(f.years)) THEN TRUE
           ELSE IF IsDef(f.from) /\ IsDef(f.to)
                THEN IF Val(f.to) < Val(f.from)
                     THEN y <= Val(f.to) \/ y >= Val(f.from)
                     ELSE Val(f.from) <= y /\ y <= Val(f.to)
           ELSE IF IsDef(f.from) THEN y >= Val(f.from)
           ELSE IF IsDef(f.to) THEN y <= Val(f.to)
           ELSE IF IsDef(f.years) THEN FALSE
           ELSE TRUE

\* The optimizer's candidate universe and the allowed years of section 4.3
Universe == UniverseFirstYear(generationSet) .. UniverseLastYear(generationSet, currentYear)
AllowedSet ==
  LET sup == Supported
      unsup == Unsupported
  IN  {y \in Universe : y >= ProtocolFloor /\ (y \in sup \/ y \notin unsup)}

\* C1: whenever calculateOptimizedFilter returns a filter, the year predicate
\* applied to that filter is true for a universe year exactly when the year
\* is in allowedYears.
C1_OptimizedFilterReproducesAllowedYears ==
  (Done /\ IsDef(result)) =>
    LET allowedYears == AllowedSet
    IN  \A y \in Universe : isYearAllowedByFilter(y, result) <=> y \in allowedYears

\* An optimized filter with a head, a years list and a tail was returned
\* for evidence that holds a year both as supported and as unsupported.
C1_Witness ==
  /\ Done /\ IsDef(result)
  /\ IsDef(R.to) /\ IsDef(R.years) /\ IsDef(R.from)
  /\ \E y \in Supported \cap Unsupported : y \in Universe /\ y >= ProtocolFloor

\* C2: whenever calculateDebugFilter returns a filter, every year inside the
\* generation boundary that the command filter allows and that is not
\* confirmed supported is allowed by the returned filter.
C2_DebugFilterCoversUncertainYears ==
  (Done /\ IsDef(result)) =>
    \A y \in Window :
      (InBoundary(y) /\ isYearAllowedByFilter(y, commandFilter) /\ y \notin Supported)
        => isYearAllowedByFilter(y, result)

\* C3: calculateDebugFilter returns {} only when every year inside the
\* generation boundary that the command filter allows is confirmed supported.
C3_EmptyOnlyWhenResolved ==
  (Done /\ result = Some(EmptyFilter)) =>
    \A y \in Window :
      (InBoundary(y) /\ isYearAllowedByFilter(y, commandFilter)) => y \in Supported

\* C4: for every year and every filter whose years list, when present, is
\* non-empty, isYearAllowedByFilter equals the predicate of section 4.1.
C4_PredicateMatchesReference ==
  (Done /\ (HasFilter /\ IsDef(CF.years) => Val(CF.years) # <<>>)) =>
    R = AllowsRef(year, commandFilter)

\* The predicate rejected a year of the disallowed middle of an OR range.
C4_Witness ==
  /\ Done /\ HasFilter
  /\ IsDef(CF.from) /\ IsDef(CF.to) /\ IsDef(CF.years)
  /\ Val(CF.to) < year /\ year < Val(CF.from)
  /\ Val(CF.years) # <<>>
  /\ R = FALSE

\* C5: a year that is a member of filter.years is allowed whatever from and
\* to are.
C5_AllowListWins ==
  (Done /\ HasFilter /\ IsDef(CF.years) /\ year \in Elems(Val(CF.years))) => R = TRUE

\* A listed year outside the AND range of the same filter was allowed.
C5_Witness ==
  /\ Done /\ HasFilter
  /\ IsDef(CF.years) /\ year \in Elems(Val(CF.years))
  /\ IsDef(CF.from) /\ IsDef(CF.to)
  /\ Val(CF.from) <= Val(CF.to) /\ year > Val(CF.to)
  /\ R = TRUE

OnlyYears == HasFilter /\ IsDef(CF.years) /\ CF.from = None /\ CF.to = None

\* C6 as stated: with years present and neither from nor to, every year that
\* is not listed is rejected, for every list including the empty one.
C6_OnlyYearsRejectsUnlisted ==
  (Done /\ OnlyYears /\ year \notin Elems(Val(CF.years))) => R = FALSE

\* C6 amended: with a non-empty years list and neither from nor to, every
\* year that is not listed is rejected; with an empty years list and neither
\* from nor to, every year is allowed.
C6_OnlyYearsNonEmptyRejectsUnlisted ==
  (Done /\ OnlyYears) =>
    /\ (Val(CF.years) # <<>> /\ year \notin Elems(Val(CF.years))) => R = FALSE
    /\ Val(CF.years) = <<>> => R = TRUE

\* An unlisted year was rejected by a filter that is a non-empty list only.
C6_Witness ==
  /\ Done /\ OnlyYears
  /\ Len(Val(CF.years)) > 1
  /\ year \notin Elems(Val(CF.years))
  /\ R = FALSE

\* C7: calculateDebugFilter returns null exactly when supportedYears is
\* empty.
C7_NullIffNoSupportedYears ==
  Done => (result = None <=> supportedYears = <<>>)

\* A command filter and supported years gave the empty filter, not null.
C7_Witness ==
  /\ Done /\ HasFilter
  /\ supportedYears # <<>>
  /\ result = Some(EmptyFilter)

Listed == Val(CF.years)

\* C8: for a command filter that is a non-empty years list only, and
\* non-empty supported years, the result is {} when every listed year is
\* supported and otherwise exactly {years: the listed years that are not
\* supported}; nothing else enters the result.
C8_AllowListBranch ==
  (Done /\ OnlyYears /\ Listed # <<>> /\ supportedYears # <<>>) =>
    result = Some(IF Elems(Listed) \subseteq Supported
                  THEN EmptyFilter
                  ELSE [from |-> None, to |-> None,
                        years |-> Some(SelectSeq(Listed, LAMBDA y : y \notin Supported))])

\* A list with a supported and an unsupported year, next to a supported
\* year that is not listed.
C8_Witness ==
  /\ Done /\ OnlyYears /\ Listed # <<>>
  /\ Elems(Listed) \cap Supported # {}
  /\ Elems(Listed) \ Supported # {}
  /\ Supported \ Elems(Listed) # {}
  /\ IsDef(result) /\ IsDef(R.years)

\* C9: without a command filter and with all supported years inside the
\* generation boundary, to is min(supported) - 1 and is set exactly when
\* that year is not below firstYear; from is max(supported) + 1 and is set
\* exactly when that year is not above lastYear. Supported 2018..2025 in
\* generations 2007..2030 gives {to: 2017, from: 2026}.
C9_HeadAndTailWithoutFilter ==
  /\ (Done /\ ~HasFilter /\ Supported # {} /\ \A y \in Supported : InBoundary(y)) =>
       /\ R.to = IF InBoundary(MinOf(Supported) - 1)
                 THEN Some(MinOf(Supported) - 1) ELSE None
       /\ R.from = IF InBoundary(MaxOf(Supported) + 1)
                   THEN Some(MaxOf(Supported) + 1) ELSE None
  /\ (Done /\ IsTest(Test2)) =>
       result = Some([to |-> Some(2017), years |-> None, from |-> Some(2026)])

\* Test 2 of the repository ran.
C9_Witness == Done /\ IsTest(Test2) /\ IsDef(result)

\* C10: a to or from of the result is a year the command filter allows;
\* with a filter {from: F} and min(supported) = F there is no to, with a
\* filter {to: T} and max(supported) = T there is no from.
C10_BoundsAllowedByCommandFilter ==
  (Done /\ IsDef(result)) =>
    /\ IsDef(R.to) => isYearAllowedByFilter(Val(R.to), commandFilter)
    /\ IsDef(R.from) => isYearAllowedByFilter(Val(R.from), commandFilter)
    /\ (HasFilter /\ IsDef(CF.from) /\ CF.to = None /\ CF.years = None
        /\ MinOf(Supported) = Val(CF.from)) => R.to = None
    /\ (HasFilter /\ IsDef(CF.to) /\ CF.from = None /\ CF.years = None
        /\ MaxOf(Supported) = Val(CF.to)) => R.from = None

\* An OR-form command filter whose disallowed middle holds min(supported) - 1,
\* so that no to was emitted although the year lies inside the boundary.
C10_Witness ==
  /\ Done /\ IsDef(result) /\ HasFilter
  /\ IsDef(CF.from) /\ IsDef(CF.to) /\ Val(CF.to) < Val(CF.from)
  /\ InBoundary(MinOf(Supported) - 1)
  /\ ~isYearAllowedByFilter(MinOf(Supported) - 1, commandFilter)
  /\ R.to = None /\ IsDef(R.from)

\* The command filter is an AND range {from, to} and nothing else
AndRangeOnly ==
  /\ HasFilter
  /\ IsDef(CF.from) /\ IsDef(CF.to) /\ CF.years = None
  /\ Val(CF.from) <= Val(CF.to)

\* C11: with an AND range {from: F, to: T} inside the generation boundary
\* and every year F..T supported, calculateDebugFilter returns {}. Test 4
\* (supported 2018..2022, filter {from: 2018, to: 2022}) gives {}.
C11_AndRangeFullySupported ==
  /\ (Done /\ AndRangeOnly
      /\ InBoundary(Val(CF.from)) /\ InBoundary(Val(CF.to))
      /\ (Val(CF.from) .. Val(CF.to)) \subseteq Supported) =>
       result = Some(EmptyFilter)
  /\ (Done /\ IsTest(Test4)) => result = Some(EmptyFilter)

\* A range of several years, all supported, next to supported years on both
\* sides of the range, inside a bounded generation boundary.
C11_Witness ==
  /\ Done /\ AndRangeOnly
  /\ Val(CF.from) < Val(CF.to)
  /\ IsDef(generationSet.firstYear) /\ IsDef(generationSet.lastYear)
  /\ InBoundary(Val(CF.from)) /\ InBoundary(Val(CF.to))
  /\ (Val(CF.from) .. Val(CF.to)) \subseteq Supported
  /\ \E y \in Supported : y < Val(CF.from)
  /\ \E y \in Supported : y > Val(CF.to)
  /\ result = Some(EmptyFilter)

\* The effective range of section 4.2 step 4, as sets of bounds: the
\* generation boundary, tightened by from and to unless they are an OR pair
OrPair == HasFilter /\ IsDef(CF.from) /\ IsDef(CF.to) /\ Val(CF.to) < Val(CF.from)
LowerBounds ==
  Elems(generationSet.firstYear) \cup (IF HasFilter /\ ~OrPair THEN Elems(CF.from) ELSE {})
UpperBounds ==
  Elems(generationSet.lastYear) \cup (IF HasFilter /\ ~OrPair THEN Elems(CF.to) ELSE {})

\* min and max of the supported years, clamped into the effective range
RefMinYear ==
  LET lo == MinOf(Supported)
      bounds == LowerBounds
  IN  IF bounds # {} /\ lo < MaxOf(bounds) THEN MaxOf(bounds) ELSE lo
RefMaxYear ==
  LET hi == MaxOf(Supported)
      bounds == UpperBounds
  IN  IF bounds # {} /\ hi > MinOf(bounds) THEN MinOf(bounds) ELSE hi

\* The call took the general branch: supported years, and a command filter
\* that is not a non-empty years list alone
GeneralCase ==
  /\ Done /\ Supported # {}
  /\ ~(OnlyYears /\ Val(CF.years) # <<>>)

RefGapYears ==
  LET sup == Supported
  IN  {y \in (RefMinYear + 1) .. (RefMaxYear - 1) :
         y \notin sup /\ isYearAllowedByFilter(y, commandFilter)}

\* s lists exactly the years of S, in ascending order
AscendingListOf(s, S) ==
  /\ Elems(s) = S
  /\ \A i \in 1..(Len(s) - 1) : s[i] < s[i + 1]

DisallowedMiddle ==
  {y \in (Val(CF.to) + 1) .. (Val(CF.from) - 1) :
     ~(IsDef(CF.years) /\ Includes(Val(CF.years), y))}

NoEvidence == Unsupported = {} /\ \A y \in Supported : y < ProtocolFloor

C16_SupportedYearsAllowed ==
  Done => \A y \in Supported : isYearAllowedByFilter(y, result)

\* C16, amended: every year of supportedYears that is not below 1996 and lies
\* in the universe [firstYear..lastYear] is allowed by the optimized filter.
C16_SupportedUniverseYearsAllowed ==
  Done =>
    LET universe == Universe
    IN  \A y \in Supported :
          (y >= ProtocolFloor /\ y \in universe) => isYearAllowedByFilter(y, result)

\* A filter with a years list was returned; one supported year of the
\* universe is also reported unsupported, and another supported year lies
\* below the protocol floor.
C16_Witness ==
  /\ Done /\ IsDef(result) /\ IsDef(R.years)
  /\ \E y \in Supported \cap Unsupported : y >= ProtocolFloor /\ y \in Universe
  /\ \E y \in Supported : y < ProtocolFloor /\ y \in Universe

\* C17: protocol floor. Whenever calculateOptimizedFilter returns a filter,
\* that filter rejects every universe year below 1996, also one that is
\* listed in supportedYears.
C17_ProtocolFloor ==
  (Done /\ IsDef(result)) =>
    \A y \in Universe : y < ProtocolFloor => ~isYearAllowedByFilter(y, result)

\* A filter was returned for a universe that starts below 1996, with the
\* year below 1996 reported supported and not reported unsupported.
C17_Witness ==
  /\ Done /\ IsDef(result)
  /\ \E y \in Universe : y < ProtocolFloor /\ y \in Supported /\ y \notin Unsupported

\* C18: the optimized filter is never more complex than necessary. A proper
\* non-empty suffix of the universe is returned as {from: min}, a proper
\* non-empty prefix as {to: max}, any other contiguous interval as
\* {from: min, to: max}; a years list or an OR pair (to < from) appears only
\* when allowedYears is not a contiguous interval.
C18_SimplestRepresentation ==
  (Done /\ ~NoEvidence) =>
    LET allowedYears == AllowedSet
        universe == Universe
        proper == allowedYears # {} /\ allowedYears # universe
        lo == MinOf(allowedYears)
        hi == MaxOf(allowedYears)
        suffix == allowedYears = {y \in universe : y >= lo}
        prefix == allowedYears = {y \in universe : y <= hi}
        contiguous == allowedYears = lo .. hi
    IN  /\ (proper /\ suffix) => result = YF(Some(lo), None, None)
        /\ (proper /\ prefix) => result = YF(None, Some(hi), None)
        /\ (proper /\ contiguous /\ ~suffix /\ ~prefix) =>
             result = YF(Some(lo), Some(hi), None)
        /\ (IsDef(result) /\ (IsDef(R.years)
                              \/ (IsDef(R.to) /\ IsDef(R.from) /\ Val(R.to) < Val(R.from))))
             => (proper /\ ~contiguous)

\* A contiguous run of allowed years strictly inside the universe, returned
\* as a from/to pair.
C18_Witness ==
  /\ Done /\ IsDef(result)
  /\ IsDef(R.from) /\ IsDef(R.to) /\ R.years = None
  /\ Val(R.from) < Val(R.to)
  /\ UniverseFirstYear(generationSet) < Val(R.from)
  /\ Val(R.to) < UniverseLastYear(generationSet, currentYear)
  /\ Val(R.from) - 1 >= ProtocolFloor

\* Universe years from 1996 on reported both supported and unsupported
Contradictory ==
  {y \in Supported \cap Unsupported : y >= ProtocolFloor /\ y \in Universe}

\* unsupportedYears with every entry for year y taken out
WithoutYear(strs, y) == SelectSeq(strs, LAMBDA s : ParseInt(s) # y)

\* C19: a universe year from 1996 on that is in both supportedYears and
\* unsupportedYears is allowed by the optimized filter, and the result is the
\* one obtained with that year removed from unsupportedYears.
C19_ContradictionResolvedOptimistically ==
  Done =>
    \A y \in Contradictory :
      /\ isYearAllowedByFilter(y, result)
      /\ result = calculateOptimizedFilter(supportedYears, WithoutYear(unsupportedYears, y),
                                           generationSet, currentYear)

\* A contradictory year next to a year that is only reported unsupported:
\* the filter keeps the first and rejects the second.
C19_Witness ==
  /\ Done /\ IsDef(result)
  /\ \E y \in Contradictory :
       \E z \in Unsupported \ Supported :
         /\ z \in Universe /\ z >= ProtocolFloor
         /\ (z = y + 1 \/ z = y - 1)
         /\ isYearAllowedByFilter(y, result)
         /\ ~isYearAllowedByFilter(z, result)

\* C20 as stated: supportedYears 2018..2024, no unsupported year and the
\* generations 2007..2030 give {from: 2018}.
C20_SupportedTailGivesFrom ==
  (Done /\ IsExample(SupportedTail)) => result = YF(Some(2018), None, None)

\* C20, amended: supportedYears 2018..2024, no unsupported year and the
\* generations 2007..2030 give {}, every year of 2007..2030 being allowed;
\* with 2007..2017 reported unsupported the result is {from: 2018}.
C20_SupportedTailGivesEmptyFilter ==
  /\ (Done /\ IsExample(SupportedTail)) =>
       /\ result = Some(EmptyFilter)
       /\ \A y \in 2007 .. 2030 : isYearAllowedByFilter(y, result)
  /\ (Done /\ IsExample(SupportedTailAfterUnsupported)) =>
       result = YF(Some(2018), None, None)

\* The call of the example has returned.
C20_Witness ==
  /\ Done /\ IsExample(SupportedTail)
  /\ Universe = 2007 .. 2030
  /\ IsDef(result)

\* C21 as stated: the result of calculateOptimizedFilter is the same in
\* whatever year the call is made.
C21_SameResultInEveryYear ==
  Done =>
    \A now \in Clocks :
      result = calculateOptimizedFilter(supportedYears, unsupportedYears, generationSet, now)

\* C21, amended: the result of calculateOptimizedFilter is the same in
\* whatever year the call is made when the generation set has a lastYear, or
\* when no year that is unsupported and not supported lies at or beyond the
\* earlier year + 5; calculateDebugFilter never reads the clock.
C21_SameResultUnlessEvidenceAtHorizon ==
  Done =>
    LET sup == Supported
        unsup == Unsupported
    IN  \A now \in Clocks :
          LET earlier == IF now < currentYear THEN now ELSE currentYear
          IN  (\/ IsDef(generationSet.lastYear)
               \/ \A y \in unsup \ sup : y < earlier + DefaultLastYearOffset)
                => result = calculateOptimizedFilter(supportedYears, unsupportedYears,
                                                     generationSet, now)

\* An open-ended generation set and an unsupported year just inside the
\* default universe: a from/to/years filter that does not depend on the year
\* of the call.
C21_Witness ==
  /\ Done /\ generationSet.lastYear = None
  /\ \E y \in Unsupported \ Supported : y = ClockYear + DefaultLastYearOffset - 1
  /\ IsDef(result) /\ R # EmptyFilter

\* C22: the years field of every filter returned by calculateDebugFilter (in
\* the allow-list branch as in the general branch) is strictly ascending,
\* without duplicates.
C22_YearsStrictlyAscending ==
  (Done /\ IsDef(result) /\ IsDef(R.years)) =>
    \A i \in 1..(Len(Val(R.years)) - 1) : Val(R.years)[i] < Val(R.years)[i + 1]

\* C23: neither calculator mutates its inputs. After a call the caller's
\* supportedYears, unsupportedYears and commandFilter.years arrays hold what
\* they held before it, in the same order, the result's years is an array of
\* its own (none of the caller's three), and the call computes what the
\* calculator computes on values.
C23_InputsNotMutated ==
  (pc = "done" /\ Len(heap) >= FilterYearsRef) =>
    /\ SubSeq(heap, SupportedRef, FilterYearsRef) = CallerHeap
    /\ FilterOnHeap(heap, commandFilter) = commandFilter
    /\ IsDef(yearsRef) =>
         Val(yearsRef) \notin {SupportedRef, UnsupportedRef, FilterYearsRef}
    /\ (IsDef(result) /\ IsDef(Val(result).years)) =>
         /\ IsDef(yearsRef)
         /\ heap[Val(yearsRef)] = Val(Val(result).years)
    /\ result = IF currentYear = 0
                THEN calculateDebugFilter(supportedYears, generationSet, commandFilter)
                ELSE calculateOptimizedFilter(supportedYears, unsupportedYears,
                                              generationSet, currentYear)

\* An allow-list call that returns some, not all, of the command's years
C23_Witness ==
  /\ pc = "done"
  /\ IsAllowListOnly(commandFilter)
  /\ IsDef(yearsRef)
  /\ Len(heap[Val(yearsRef)]) < Len(Val(Val(commandFilter).years))
  /\ heap[FilterYearsRef] = Val(Val(commandFilter).years)

\* The handler that made the edit and the argument it decided on
EditedBy(name) == pc = "done" /\ IsDef(edited) /\ Val(edited).by = name
EmptyArguments == {Undefined, Null, Object(EmptyFilter)}
IsNew == Val(command).dbg /\ ~IsDef(Val(command).dbgfilter)

\* C24: the three handlers treat undefined, null and {} alike. Whenever one
\* of them has run on one of the three, its edit is the edit it makes for
\* each of the three, the sub-record it writes to is gone afterwards, and a
\* sub-record that is the empty object after a handler is one the command
\* had before it.
C24_EmptyAndAbsentInterchangeable ==
  /\ (EditedBy("obdb.optimizeDebugFilter") /\ Val(handlerArg) \in EmptyArguments) =>
       /\ \A a \in EmptyArguments :
            Val(edited).command = optimizeDebugFilterCommand(Val(command), a)
       /\ Val(edited).command.dbgfilter = None
  /\ (EditedBy("obdb.optimizeFilter") /\ Val(handlerArg) \in EmptyArguments) =>
       /\ \A a \in EmptyArguments :
            Val(edited).command = optimizeFilterCommand(Val(command), a)
       /\ Val(edited).command.filter = None
  /\ (/\ EditedBy("obdb.optimizeAllDebugFilters")
      /\ IsDef(handlerArg) /\ Val(handlerArg) \in EmptyArguments
      /\ Val(edited).command # Val(command)) =>
       /\ \A a \in EmptyArguments :
            Val(edited).command =
              ApplyOptimization(Val(command), [optimizedFilter |-> a, isNew |-> IsNew])
       /\ Val(edited).command.dbgfilter = None
  /\ (EditedBy("obdb.optimizeDebugFilter") \/ EditedBy("obdb.optimizeAllDebugFilters")) =>
       (Val(edited).command.dbgfilter = Some(<<>>) => Val(command).dbgfilter = Some(<<>>))
  /\ EditedBy("obdb.optimizeFilter") =>
       (Val(edited).command.filter = Some(<<>>) => Val(command).filter = Some(<<>>))

\* obdb.optimizeDebugFilter invoked with {} on a command that has a debug
\* filter
C24_Witness ==
  /\ EditedBy("obdb.optimizeDebugFilter")
  /\ Val(handlerArg) = Object(EmptyFilter)
  /\ IsDef(Val(command).dbgfilter)
  /\ Val(edited).command.dbgfilter = None

DebugLenses ==
  {l \in Val(lenses) : l.command \in {"obdb.applyDebugFilter", "obdb.optimizeDebugFilter"}}
BulkChanged ==
  /\ EditedBy("obdb.optimizeAllDebugFilters")
  /\ \/ Val(edited).command.dbg # Val(command).dbg
     \/ Val(edited).command.dbgfilter # Val(command).dbgfilter

\* C29: the bulk command changes a command's dbg flag or dbgfilter only
\* where the CodeLens provider, on the same support data, generation set and
\* command filter, offers a debug-filter change for that command; a command
\* with a dbgfilter and no supported years is left as it is by both.
C29_BulkChangesOnlyWhereLensOffered ==
  BulkChanged => DebugLenses # {}

\* The effective range does not exclude y
InEffectiveRange(y) ==
  /\ ~Less(Fin(y), effectiveFirstYear(generationSet, commandFilter))
  /\ ~Less(effectiveLastYear(generationSet, commandFilter), Fin(y))

GeneralResult == pc = "done" /\ IsDef(result) /\ ~IsAllowListOnly(commandFilter)

\* C25: in the general branch every year the result names lies inside the
\* effective range [effFirst, effLast]: to and from when set, and every
\* member of years.
C25_ResultWithinEffectiveRange ==
  GeneralResult =>
    LET res == Val(result)
    IN  /\ IsDef(res.to) => InEffectiveRange(Val(res.to))
        /\ IsDef(res.from) => InEffectiveRange(Val(res.from))
        /\ IsDef(res.years) => \A i \in 1..Len(Val(res.years)) : InEffectiveRange(Val(res.years)[i])

\* C26: the parts of a calculateDebugFilter result do not overlap. Every
\* member of years is above to and below from, and when both to and from
\* are set then to < from, the OR form of the year predicate.
C26_PartsDoNotOverlap ==
  (pc = "done" /\ IsDef(result)) =>
    LET res == Val(result)
        listed == IF IsDef(res.years) THEN Val(res.years) ELSE <<>>
    IN  /\ IsDef(res.to) => \A i \in 1..Len(listed) : listed[i] > Val(res.to)
        /\ IsDef(res.from) => \A i \in 1..Len(listed) : listed[i] < Val(res.from)
        /\ (IsDef(res.to) /\ IsDef(res.from)) => Val(res.to) < Val(res.from)

\* A result with all three parts
C26_Witness ==
  /\ pc = "done"
  /\ IsDef(result)
  /\ IsDef(Val(result).to) /\ IsDef(Val(result).years) /\ IsDef(Val(result).from)

\* C28: a non-empty debug filter never re-flags a confirmed year. For every
\* result that is neither null nor {} and every supported year y, the year
\* predicate on (y, res) is false.
C28_SupportedYearsNotFlagged ==
  (pc = "done" /\ IsDef(result) /\ Val(result) # EmptyFilter) =>
    LET supported == ParseAll(supportedYears)
    IN  \A i \in 1..Len(supported) : ~isYearAllowedByFilter(supported[i], result)

\* Results of both branches: an allow-list result, and a general result
\* with a clamped bound
C28_Witness ==
  /\ pc = "done"
  /\ IsDef(result) /\ Val(result) # EmptyFilter
  /\ Len(supportedYears) > 1
  /\ \/ IsAllowListOnly(commandFilter)
     \/ /\ IsDef(Val(result).to) /\ IsDef(Val(result).years) /\ IsDef(Val(result).from)
        /\ IsDef(commandFilter)

\* allowedYears is neither empty, nor the universe, nor an interval
NotContiguousSet(allowed, universe) ==
  /\ allowed # {}
  /\ allowed # universe
  /\ allowed # MinOf(allowed) .. MaxOf(allowed)

\* C27: the OR form of calculateOptimizedFilter. When allowedYears is not a
\* contiguous interval, to is the last year of the longest universe prefix
\* inside allowedYears (absent when the first year is not allowed), from is
\* the first year of the longest such suffix (absent when the last year is
\* not allowed), years is exactly the allowed years strictly between them,
\* ascending (absent when there are none), and to + 1 < from when both are
\* set. The prefix ends before the first universe year that is not allowed,
\* the suffix starts after the last one.
C27_OrFormConstruction ==
  (Done /\ ~NoEvidence) =>
    LET allowed == AllowedSet
        universe == Universe
    IN  NotContiguousSet(allowed, universe) =>
          LET excluded == universe \ allowed
              firstExcluded == MinOf(excluded)
              lastExcluded == MaxOf(excluded)
              prefix == {y \in universe : y < firstExcluded}
              suffix == {y \in universe : y > lastExcluded}
              middle == allowed \ (prefix \cup suffix)
          IN  /\ IsDef(result)
              /\ Val(result).to = IF prefix = {} THEN None ELSE Some(MaxOf(prefix))
              /\ Val(result).from = IF suffix = {} THEN None ELSE Some(MinOf(suffix))
              /\ IF middle = {} THEN Val(result).years = None
                 ELSE /\ IsDef(Val(result).years)
                      /\ AscendingListOf(Val(Val(result).years), middle)
              /\ (prefix # {} /\ suffix # {}) => MaxOf(prefix) + 1 < MinOf(suffix)

\* An OR form with head, tail and middle years
C27_Witness ==
  /\ Done /\ ~NoEvidence
  /\ NotContiguousSet(AllowedSet, Universe)
  /\ IsDef(result)
  /\ IsDef(Val(result).to) /\ IsDef(Val(result).from) /\ IsDef(Val(result).years)

\* C30: getYamlFile never serves stale content. A call that answered from
\* the cache returned the data of the file version whose modification time it
\* observed, and a call that did not answer from the cache returned what it
\* read after its stat and left it in the cache under the time it observed.
C30_CacheHitReturnsObservedVersion ==
  \A i \in 1..NumCalls :
    calls[i].pc = "done" =>
      IF calls[i].hit THEN calls[i].data = calls[i].currentMtime
      ELSE calls[i].data >= calls[i].currentMtime

====
